---- MODULE Spec2Model ----
(***************************************************************************)
(* Model of src/web/app.js: the video summary handler                      *)
(* (GET /api/videos/:id/summary) with its inner function filterOccurrences, *)
(* and uploadDocument.                                                      *)
(*                                                                          *)
(* Scores are confidence values scaled by 100 (0.85 is 85), so that they    *)
(* are integers; only their order and their differences' signs are used.    *)
(* A JavaScript object used as a string-keyed map is a sequence of          *)
(* [key, value] properties in creation order; Object.keys lists the         *)
(* integer-like keys first, ascending, then the others in creation order.   *)
(* Array.prototype.sort is the stable sort of ECMAScript 2019 (and of the   *)
(* insertion sort older V8 applies to arrays of at most 10 elements).       *)
(***************************************************************************)
EXTENDS Integers, Sequences, FiniteSets, TLC

VARIABLES
    \* filterOccurrences applied to bounded inputs
    f_pc, f_groups, f_accessor, occurrences, result, f_raised, f_result2,
    \* the summary handler
    s_pc, s_err, s_video, s_images, peopleNameToOccurrences,
    keywordToOccurrences, s_summary, s_calls, s_responses,
    \* uploadDocument
    u_pc, u_store, u_calls, u_responses

fvars == <<f_pc, f_groups, f_accessor, occurrences, result, f_raised, f_result2>>
svars == <<s_pc, s_err, s_video, s_images, peopleNameToOccurrences,
           keywordToOccurrences, s_summary, s_calls, s_responses>>
uvars == <<u_pc, u_store, u_calls, u_responses>>
vars == <<fvars, svars, uvars>>

----------------------------------------------------------------------------
(* Bounds of the model *)

\* longest sequence of detections given to filterOccurrences' collection
MaxDet == 3
\* most frame records of one video
MaxImages == 3
\* uploads in flight
MaxUploads == 3

----------------------------------------------------------------------------
(* JavaScript objects used as maps *)

\* canonical array-index keys among the keys of the model, with their values
IndexValue == ("7" :> 7) @@ ("10" :> 10)

IsArrayIndex(k) == k \in DOMAIN IndexValue

HasOwn(obj, k) == \E i \in 1..Len(obj) : obj[i].key = k

Get(obj, k) == obj[CHOOSE i \in 1..Len(obj) : obj[i].key = k].value

\* obj[k] = v: an existing property keeps its place, a new one goes last
Set(obj, k, v) ==
    IF HasOwn(obj, k)
    THEN [i \in 1..Len(obj) |-> IF obj[i].key = k THEN [key |-> k, value |-> v] ELSE obj[i]]
    ELSE Append(obj, [key |-> k, value |-> v])

\* delete obj[k]
Delete(obj, k) == SelectSeq(obj, LAMBDA p : p.key # k)

RECURSIVE AscendingIndexKeys(_)
AscendingIndexKeys(ks) ==
    IF ks = {} THEN <<>>
    ELSE LET least == CHOOSE k \in ks : \A o \in ks : IndexValue[k] <= IndexValue[o]
         IN  <<least>> \o AscendingIndexKeys(ks \ {least})

CreationOrderKeys(obj) == [i \in 1..Len(obj) |-> obj[i].key]

\* Object.keys(obj)
ObjectKeys(obj) ==
    AscendingIndexKeys({obj[i].key : i \in {j \in 1..Len(obj) : IsArrayIndex(obj[j].key)}})
    \o SelectSeq(CreationOrderKeys(obj), LAMBDA k : ~IsArrayIndex(k))

----------------------------------------------------------------------------
(* Array.prototype.sort, stable, as a permutation of the indices *)

RECURSIVE InsertIndex(_, _, _)
\* cmp[a][b] is the comparator's value on the elements at a and b
InsertIndex(s, i, cmp) ==
    IF s = <<>> THEN <<i>>
    ELSE LET last == s[Len(s)]
         IN  IF cmp[last][i] > 0
             THEN Append(InsertIndex(SubSeq(s, 1, Len(s) - 1), i, cmp), last)
             ELSE Append(s, i)

RECURSIVE SortIndices(_, _)
SortIndices(n, cmp) ==
    IF n = 0 THEN <<>> ELSE InsertIndex(SortIndices(n - 1, cmp), n, cmp)

ArraySort(arr, cmp) ==
    LET perm == SortIndices(Len(arr), cmp)
    IN  [i \in 1..Len(arr) |-> arr[perm[i]]]

\* arr.slice(0, n)
Slice0(arr, n) == SubSeq(arr, 1, IF n < Len(arr) THEN n ELSE Len(arr))

----------------------------------------------------------------------------
(* filterOccurrences *)

\* accessor.score: face => face.identity.score, or label => label.score
Score(accessor, occur) ==
    IF accessor.score = "face.identity.score" THEN occur.identity[1].score
    ELSE occur.score

RECURSIVE NumberOfOccurrencesAboveThreshold(_, _)
NumberOfOccurrencesAboveThreshold(list, accessor) ==
    IF list = <<>> THEN 0
    ELSE (IF Score(accessor, Head(list)) >= accessor.minimumScore THEN 1 ELSE 0)
         + NumberOfOccurrencesAboveThreshold(Tail(list), accessor)

KeepIt_NoScoreCount(list, accessor) ==
    Len(list) >= accessor.minimumOccurrence

KeepIt_Inverted(list, accessor) ==
    IF Len(list) <= accessor.minimumOccurrence
    THEN NumberOfOccurrencesAboveThreshold(list, accessor) >= accessor.minimumScoreOccurrence
    ELSE FALSE

KeepIt(list, accessor) ==
    IF Len(list) >= accessor.minimumOccurrence
    THEN NumberOfOccurrencesAboveThreshold(list, accessor) >= accessor.minimumScoreOccurrence
    ELSE FALSE

SortCompare_Ascending(accessor, oneOccurrence, anotherOccurrence) ==
    Score(accessor, oneOccurrence) - Score(accessor, anotherOccurrence)

\* (oneOccurrence, anotherOccurrence) => score(anotherOccurrence) - score(oneOccurrence)
SortCompare(accessor, oneOccurrence, anotherOccurrence) ==
    Score(accessor, anotherOccurrence) - Score(accessor, oneOccurrence)

\* occurrences[property].sort(...), then .slice(0, 1)
HigherScoreFirst(list, accessor) ==
    ArraySort(list, [a \in 1..Len(list) |-> [b \in 1..Len(list) |->
                        SortCompare(accessor, list[a], list[b])]])

KeepOnlyTheFirstOne(list, accessor) == Slice0(HigherScoreFirst(list, accessor), 1)

RECURSIVE FilterEach(_, _, _)
\* Object.keys(occurrences).forEach((property) => { ... delete or sort and slice ... })
FilterEach(occ, keys, accessor) ==
    IF keys = <<>> THEN occ
    ELSE LET property == Head(keys)
             list == Get(occ, property)
             after == IF ~KeepIt(list, accessor)
                      THEN Delete(occ, property)
                      ELSE Set(occ, property, KeepOnlyTheFirstOne(list, accessor))
         IN  FilterEach(after, Tail(keys), accessor)

FilterPass(occ, accessor) == FilterEach(occ, ObjectKeys(occ), accessor)

\* result.push({occurrences: occurrences[property]}) for each remaining key
PushResult(occ) ==
    LET keys == ObjectKeys(occ)
    IN  [i \in 1..Len(keys) |-> [occurrences |-> Get(occ, keys[i])]]

\* result.sort(...) on the score of occurrences[0]
SortResult(res, accessor) ==
    ArraySort(res, [a \in 1..Len(res) |-> [b \in 1..Len(res) |->
                       SortCompare(accessor, res[a].occurrences[1], res[b].occurrences[1])]])

\* the optional accessor.maximumOccurrenceCount is <<>> when absent, <<N>> when set
HasMaximum(accessor) ==
    /\ "maximumOccurrenceCount" \in DOMAIN accessor
    /\ accessor.maximumOccurrenceCount # <<>>

\* accessor.maximumOccurrenceCount as a condition: undefined and 0 are falsy
MaximumIsTruthy(accessor) ==
    HasMaximum(accessor) /\ accessor.maximumOccurrenceCount[1] # 0

Truncate_Never(res, accessor) == res

Truncate(res, accessor) ==
    IF MaximumIsTruthy(accessor) /\ Len(res) > accessor.maximumOccurrenceCount[1]
    THEN Slice0(res, accessor.maximumOccurrenceCount[1])
    ELSE res

BuildResult(occ, accessor) == Truncate(SortResult(PushResult(occ), accessor), accessor)

\* the whole function
filterOccurrences(occ, accessor) == BuildResult(FilterPass(occ, accessor), accessor)

----------------------------------------------------------------------------
(* The collection pass of the summary handler: images.forEach *)

\* An optional value is <<>> when absent and <<v>> when present.
\* A frame record is [_id, analysis], analysis an optional
\* [face_detection, image_keywords], each an optional array; a face is
\* [identity], identity an optional [name, score]; a keyword is [class, score].
\* The collection adds image_id to each detection it keeps (image_url and
\* timecode are functions of the frame alone and are left out).

\* if (!map[key]) map[key] = []; map[key].push(value)
Push(map, key, value) ==
    IF ~HasOwn(map, key) THEN Set(map, key, <<value>>)
    ELSE Set(map, key, Append(Get(map, key), value))

FaceIsNamed_AnyIdentity(face) == face.identity # <<>>

\* face.identity && face.identity.name
FaceIsNamed(face) == face.identity # <<>> /\ face.identity[1].name # ""

RECURSIVE CollectFaces(_, _, _)
CollectFaces(people, faces, image) ==
    IF faces = <<>> THEN people
    ELSE LET face == Head(faces)
         IN  IF FaceIsNamed(face)
             THEN CollectFaces(
                    Push(people, face.identity[1].name,
                         [identity |-> face.identity, image_id |-> image._id]),
                    Tail(faces), image)
             ELSE CollectFaces(people, Tail(faces), image)

RECURSIVE CollectKeywords(_, _, _)
CollectKeywords(keywords, list, image) ==
    IF list = <<>> THEN keywords
    ELSE LET keyword == Head(list)
         IN  CollectKeywords(
               Push(keywords, keyword.class,
                    [class |-> keyword.class, score |-> keyword.score,
                     image_id |-> image._id]),
               Tail(list), image)

\* the body of images.forEach for one image, on the pair of maps
CollectImage(maps, image) ==
    LET hasFaces == image.analysis # <<>> /\ image.analysis[1].face_detection # <<>>
        hasKeywords == image.analysis # <<>> /\ image.analysis[1].image_keywords # <<>>
    IN  [people   |-> IF hasFaces
                      THEN CollectFaces(maps.people, image.analysis[1].face_detection[1], image)
                      ELSE maps.people,
         keywords |-> IF hasKeywords
                      THEN CollectKeywords(maps.keywords, image.analysis[1].image_keywords[1], image)
                      ELSE maps.keywords]

RECURSIVE CollectFrom(_, _)
CollectFrom(maps, images) ==
    IF images = <<>> THEN maps
    ELSE CollectFrom(CollectImage(maps, Head(images)), Tail(images))

\* let peopleNameToOccurrences = {}; let keywordToOccurrences = {}; images.forEach(...)
Collect(images) == CollectFrom([people |-> <<>>, keywords |-> <<>>], images)

----------------------------------------------------------------------------
(* Bounded inputs of filterOccurrences *)

FKeys == {"cat", "dog", "7"}
FScores == {50, 85}

SeqsUpTo(S, n) == UNION {[1..m -> S] : m \in 0..n}

\* one frame per detection, in iteration order
DetectionFrames(dets) ==
    [i \in 1..Len(dets) |->
        [_id |-> i,
         analysis |-> <<[face_detection |-> <<>>,
                         image_keywords |-> <<<<[class |-> dets[i][1], score |-> dets[i][2]]>>>>]>>]]

FAccessors ==
    [score : {"label.score"},
     minimumOccurrence : {0, 1, 2},
     minimumScore : {50, 85},
     minimumScoreOccurrence : {0, 1, 2},
     maximumOccurrenceCount : {<<>>, <<0>>, <<1>>, <<2>>}]

\* the accessor with one of the two minimums raised to its next level
Raised(accessor) ==
    {[accessor EXCEPT !.minimumOccurrence = @ + 1]}
    \cup {[accessor EXCEPT !.minimumScore = s] : s \in {t \in {85, 90} : t > accessor.minimumScore}}

SummaryIdle ==
    /\ s_pc = "idle" /\ s_err = <<>> /\ s_video = <<>> /\ s_images = <<>>
    /\ peopleNameToOccurrences = <<>> /\ keywordToOccurrences = <<>>
    /\ s_summary = <<>> /\ s_calls = <<>> /\ s_responses = <<>>

UploadIdle ==
    /\ u_pc = <<>> /\ u_store = {} /\ u_calls = <<>> /\ u_responses = <<>>

FilterIdle ==
    /\ f_pc = "idle" /\ f_groups = <<>> /\ f_accessor = <<>> /\ occurrences = <<>>
    /\ result = <<>> /\ f_raised = <<>> /\ f_result2 = <<>>

InitFilter ==
    /\ f_pc = "start"
    /\ \E dets \in SeqsUpTo(FKeys \X FScores, MaxDet) :
           f_groups = Collect(DetectionFrames(dets)).keywords
    /\ occurrences = f_groups
    /\ f_accessor \in FAccessors
    /\ result = <<>>
    /\ f_raised = f_accessor
    /\ f_result2 = <<>>
    /\ SummaryIdle /\ UploadIdle

\* the first Object.keys(occurrences).forEach of filterOccurrences
F_FilterPass ==
    /\ f_pc = "start"
    /\ occurrences' = FilterPass(occurrences, f_accessor)
    /\ f_pc' = "filtered"
    /\ UNCHANGED <<f_groups, f_accessor, result, f_raised, f_result2, svars, uvars>>

\* the rest of filterOccurrences: build, sort, truncate, return
F_Return ==
    /\ f_pc = "filtered"
    /\ result' = BuildResult(occurrences, f_accessor)
    /\ f_pc' = "returned"
    /\ UNCHANGED <<f_groups, f_accessor, occurrences, f_raised, f_result2, svars, uvars>>

\* a second call on the same groups with one minimum raised
F_CallRaised ==
    /\ f_pc = "returned"
    /\ \E raised \in Raised(f_accessor) :
          /\ f_raised' = raised
          /\ f_result2' = filterOccurrences(f_groups, raised)
    /\ f_pc' = "compared"
    /\ UNCHANGED <<f_groups, f_accessor, occurrences, result, svars, uvars>>

NextFilter == F_FilterPass \/ F_Return \/ F_CallRaised

SpecFilter == InitFilter /\ [][NextFilter]_vars

----------------------------------------------------------------------------
(* Properties of filterOccurrences, under SpecFilter *)

GroupKeys == {f_groups[i].key : i \in 1..Len(f_groups)}
Group(k) == Get(f_groups, k)
KeptKeys(occ) == {occ[i].key : i \in 1..Len(occ)}
ResultKeys(res) == {res[i].occurrences[1].class : i \in 1..Len(res)}

PassesBoth(k, accessor) ==
    /\ Len(Group(k)) >= accessor.minimumOccurrence
    /\ Cardinality({i \in 1..Len(Group(k)) : Group(k)[i].score >= accessor.minimumScore})
          >= accessor.minimumScoreOccurrence

ValidConfig(accessor) ==
    /\ accessor.minimumOccurrence >= 1
    /\ accessor.minimumScoreOccurrence >= 1
    /\ accessor.minimumScoreOccurrence <= accessor.minimumOccurrence

FilterPassDone == f_pc \in {"filtered", "returned", "compared"}
Returned == f_pc \in {"returned", "compared"}

\* the first occurrence of the group, in insertion order, that has the maximum score
BestOf(list) ==
    list[CHOOSE i \in 1..Len(list) :
            /\ \A j \in 1..Len(list) : list[j].score <= list[i].score
            /\ \A j \in 1..(i - 1) : list[j].score < list[i].score]

\* C1: after the filtering pass (before any truncation) a key is kept if and
\* only if its group has at least minimumOccurrence occurrences and at least
\* minimumScoreOccurrence of them score minimumScore or more.
C1_KeptIffBothThresholds ==
    FilterPassDone =>
        KeptKeys(occurrences) = {k \in GroupKeys : PassesBoth(k, f_accessor)}

\* a key with enough occurrences but too few high scores and a key with a high
\* score but too few occurrences have both been dropped
C1_Witness ==
    /\ f_pc = "filtered"
    /\ ValidConfig(f_accessor)
    /\ \E k1, k2 \in GroupKeys :
          /\ Len(Group(k1)) >= f_accessor.minimumOccurrence
          /\ ~PassesBoth(k1, f_accessor)
          /\ Len(Group(k2)) < f_accessor.minimumOccurrence
          /\ \E i \in 1..Len(Group(k2)) : Group(k2)[i].score >= f_accessor.minimumScore
          /\ k1 \notin KeptKeys(occurrences)
          /\ k2 \notin KeptKeys(occurrences)

\* C2: every kept key and every entry of the result carries exactly one
\* occurrence, the first of the maximum-score occurrences of the key's
\* original group.
C2_SingleBestOccurrence ==
    /\ FilterPassDone =>
          \A i \in 1..Len(occurrences) :
             occurrences[i].value = <<BestOf(Group(occurrences[i].key))>>
    /\ Returned =>
          \A i \in 1..Len(result) :
             /\ Len(result[i].occurrences) = 1
             /\ result[i].occurrences[1] = BestOf(Group(result[i].occurrences[1].class))

\* an entry whose group has its maximum twice, and not in first place
C2_Witness ==
    /\ f_pc = "returned"
    /\ \E i \in 1..Len(result) :
          LET g == Group(result[i].occurrences[1].class)
          IN  /\ Len(g) = 3
              /\ g[1].score < g[2].score
              /\ g[2].score = g[3].score
              /\ result[i].occurrences[1].image_id = g[2].image_id

\* C3: with maximumOccurrenceCount = N, N >= 0, the result is the first N
\* entries of the sorted list of the keys that pass, and has at most N entries;
\* without it the result is not truncated (stated here for the valid
\* configurations alone).
C3_TruncatedToMaximum ==
    Returned /\ ValidConfig(f_accessor) =>
        LET sorted == SortResult(PushResult(occurrences), f_accessor)
        IN  IF HasMaximum(f_accessor)
            THEN /\ Len(result) <= f_accessor.maximumOccurrenceCount[1]
                 /\ result = Slice0(sorted, f_accessor.maximumOccurrenceCount[1])
            ELSE result = sorted

\* C4: an invalid threshold configuration is rejected before any group is
\* processed: no filtering pass, no result, the groups untouched.
C4_InvalidConfigRejected ==
    ~ValidConfig(f_accessor) => (~FilterPassDone /\ occurrences = f_groups)

\* C5 as stated: raising minimumOccurrence or minimumScore never adds a key to
\* the result, whatever maximumOccurrenceCount is (stated here for the valid
\* configurations alone).
C5_RaisedIsSubset ==
    f_pc = "compared" /\ ValidConfig(f_accessor) /\ ValidConfig(f_raised) => ResultKeys(f_result2) \subseteq ResultKeys(result)

\* C5 amended: raising minimumOccurrence or minimumScore never adds a key to
\* the set of keys that pass the filtering pass, and never adds a key to the
\* result when the result under the lower minimum was not truncated.
C5_RaisedIsSubsetUntruncated ==
    f_pc = "compared" =>
        /\ KeptKeys(FilterPass(f_groups, f_raised)) \subseteq KeptKeys(occurrences)
        /\ Len(result) = Len(occurrences) =>
              ResultKeys(f_result2) \subseteq ResultKeys(result)

\* the raised minimum dropped a key that the lower one kept, untruncated
C5_Witness ==
    /\ f_pc = "compared"
    /\ ValidConfig(f_accessor)
    /\ Len(result) = Len(occurrences)
    /\ f_result2 # <<>>
    /\ ResultKeys(f_result2) # ResultKeys(result)

\* C6: the result is in descending order of retained score, and entries of
\* equal score are in the order in which their keys were first encountered
\* during collection (stated here for the valid configurations alone).
C6_SortedTiesByFirstEncounter ==
    Returned /\ ValidConfig(f_accessor) =>
        \A i, j \in 1..Len(result) :
            i < j =>
               LET a == result[i].occurrences[1]
                   b == result[j].occurrences[1]
               IN  /\ a.score >= b.score
                   /\ a.score = b.score =>
                         Group(a.class)[1].image_id < Group(b.class)[1].image_id

----------------------------------------------------------------------------
(* The summary handler: GET /api/videos/:id/summary *)

\* the options of the handler, scores scaled by 100
minimumFaceOccurrence == 3
minimumFaceScore == 85
minimumFaceScoreOccurrence == 2
minimumLabelOccurrence == 5
minimumLabelScore == 70
minimumLabelScoreOccurrence == 1
maximumLabelCount == 5
minimumKeywordOccurrence == 1
minimumKeywordScore == 60
minimumKeywordScoreOccurrence == 1
maximumKeywordCount == 5

\* the accessor of the first filterOccurrences call
faceAccessor ==
    [score |-> "face.identity.score",
     minimumOccurrence |-> minimumFaceOccurrence,
     minimumScore |-> minimumFaceScore,
     minimumScoreOccurrence |-> minimumFaceScoreOccurrence]

keywordAccessor_LabelOptions ==
    [score |-> "label.score",
     minimumOccurrence |-> minimumLabelOccurrence,
     minimumScore |-> minimumLabelScore,
     minimumScoreOccurrence |-> minimumLabelScoreOccurrence,
     maximumOccurrenceCount |-> <<maximumLabelCount>>]

\* the accessor of the second filterOccurrences call
keywordAccessor ==
    [score |-> "label.score",
     minimumOccurrence |-> minimumKeywordOccurrence,
     minimumScore |-> minimumKeywordScore,
     minimumScoreOccurrence |-> minimumKeywordScoreOccurrence,
     maximumOccurrenceCount |-> <<maximumKeywordCount>>]

WaterfallStep_IgnoresError(err, nextTask) == nextTask

\* async.waterfall: an error skips the remaining tasks and goes to the final callback
WaterfallStep(err, nextTask) == IF err # <<>> THEN "final" ELSE nextTask

\* what the store can answer
VideoIds == {"v1"}
GetErrors == {"not_found", "store_error"}
ImagesErrors == {"store_error"}

Named(name, score) == [identity |-> <<[name |-> name, score |-> score]>>]
Unidentified == [identity |-> <<>>]
Keyword(class, score) == [class |-> class, score |-> score]
Analysis(faces, keywords) ==
    <<[face_detection |-> <<faces>>, image_keywords |-> <<keywords>>]>>

\* the frame records a video's image list is drawn from
FrameCatalogue ==
    { \* not analysed yet
      <<>>,
      \* analysed, no face array, an empty keyword array
      <<[face_detection |-> <<>>, image_keywords |-> << <<>> >>]>>,
      Analysis(<<Named("ann", 90), Unidentified>>, <<Keyword("cat", 65)>>),
      Analysis(<<Named("ann", 85), Named("", 99)>>,
               <<Keyword("cat", 75), Keyword("dog", 50)>>),
      Analysis(<<Named("bob", 90), Named("bob", 86), Named("bob", 50), Named("ann", 70)>>,
               <<Keyword("sky", 90), Keyword("sea", 90), Keyword("tree", 80),
                 Keyword("car", 65), Keyword("road", 60), Keyword("cat", 95)>>),
      Analysis(<<Named("ann", 84)>>, <<Keyword("7", 90), Keyword("dog", 59)>>) }

\* the lists mediaStorage.videoImages can answer with: the _id is the position
ImageLists ==
    {[i \in 1..Len(as) |-> [_id |-> i, analysis |-> as[i]]] :
        as \in SeqsUpTo(FrameCatalogue, MaxImages)}

InitSummary ==
    /\ s_pc = "getVideo"
    /\ s_err = <<>>
    /\ s_video = <<>>
    /\ s_images = <<>>
    /\ peopleNameToOccurrences = <<>>
    /\ keywordToOccurrences = <<>>
    /\ s_summary = <<>>
    /\ s_calls = [get |-> 0, videoImages |-> 0, summarize |-> 0, failed |-> <<>>]
    /\ s_responses = <<>>
    /\ FilterIdle /\ UploadIdle

\* first task: mediaStorage.get(req.params.id, (err, video) => callback(err, video))
S_GetVideo ==
    /\ s_pc = "getVideo"
    /\ \/ \E e \in GetErrors :
             /\ s_err' = <<e>>
             /\ s_video' = <<>>
             /\ s_calls' = [s_calls EXCEPT !.get = @ + 1, !.failed = <<e>>]
       \/ \E id \in VideoIds :
             /\ s_err' = <<>>
             /\ s_video' = <<[_id |-> id]>>
             /\ s_calls' = [s_calls EXCEPT !.get = @ + 1]
    /\ s_pc' = WaterfallStep(s_err', "videoImages")
    /\ UNCHANGED <<s_images, peopleNameToOccurrences, keywordToOccurrences,
                   s_summary, s_responses, fvars, uvars>>

\* second task: mediaStorage.videoImages(video._id, ...)
S_VideoImages ==
    /\ s_pc = "videoImages"
    /\ \/ \E e \in ImagesErrors :
             /\ s_err' = <<e>>
             /\ s_images' = <<>>
             /\ s_calls' = [s_calls EXCEPT !.videoImages = @ + 1, !.failed = <<e>>]
       \/ \E images \in ImageLists :
             /\ s_err' = <<>>
             /\ s_images' = images
             /\ s_calls' = [s_calls EXCEPT !.videoImages = @ + 1]
    /\ s_pc' = WaterfallStep(s_err', "collect")
    /\ UNCHANGED <<s_video, peopleNameToOccurrences, keywordToOccurrences,
                   s_summary, s_responses, fvars, uvars>>

\* third task, up to the end of images.forEach
S_Collect ==
    /\ s_pc = "collect"
    /\ peopleNameToOccurrences' = Collect(s_images).people
    /\ keywordToOccurrences' = Collect(s_images).keywords
    /\ s_calls' = [s_calls EXCEPT !.summarize = @ + 1]
    /\ s_pc' = "filter"
    /\ UNCHANGED <<s_err, s_video, s_images, s_summary, s_responses, fvars, uvars>>

\* third task, the two filterOccurrences calls and callback(null, {...})
S_Filter ==
    /\ s_pc = "filter"
    /\ peopleNameToOccurrences' = filterOccurrences(peopleNameToOccurrences, faceAccessor)
    /\ keywordToOccurrences' = filterOccurrences(keywordToOccurrences, keywordAccessor)
    /\ s_summary' = <<[video |-> s_video[1],
                       face_detection |-> peopleNameToOccurrences',
                       image_keywords |-> keywordToOccurrences']>>
    /\ s_pc' = WaterfallStep(<<>>, "final")
    /\ UNCHANGED <<s_err, s_video, s_images, s_calls, s_responses, fvars, uvars>>

\* the final callback: (err, result) => ...
S_Respond ==
    /\ s_pc = "final"
    /\ s_responses' =
          Append(s_responses,
                 IF s_err # <<>>
                 THEN [status |-> 500, body |-> [error |-> s_err[1]]]
                 ELSE [status |-> 200, body |-> s_summary[1]])
    /\ s_pc' = "sent"
    /\ UNCHANGED <<s_err, s_video, s_images, peopleNameToOccurrences,
                   keywordToOccurrences, s_summary, s_calls, fvars, uvars>>

NextSummary == S_GetVideo \/ S_VideoImages \/ S_Collect \/ S_Filter \/ S_Respond

SpecSummary == InitSummary /\ [][NextSummary]_vars

----------------------------------------------------------------------------
(* Properties of the summary handler, under SpecSummary *)

RECURSIVE Flatten(_)
Flatten(seqs) == IF seqs = <<>> THEN <<>> ELSE Head(seqs) \o Flatten(Tail(seqs))

FacesOf(image) ==
    IF image.analysis = <<>> \/ image.analysis[1].face_detection = <<>> THEN <<>>
    ELSE LET fs == image.analysis[1].face_detection[1]
         IN  [i \in 1..Len(fs) |-> [identity |-> fs[i].identity, image_id |-> image._id]]

KeywordsOf(image) ==
    IF image.analysis = <<>> \/ image.analysis[1].image_keywords = <<>> THEN <<>>
    ELSE LET ks == image.analysis[1].image_keywords[1]
         IN  [i \in 1..Len(ks) |->
                [class |-> ks[i].class, score |-> ks[i].score, image_id |-> image._id]]

\* every detection of the video's frames, in frame iteration order
AllFaces == Flatten([i \in 1..Len(s_images) |-> FacesOf(s_images[i])])
AllKeywords == Flatten([i \in 1..Len(s_images) |-> KeywordsOf(s_images[i])])

HasName(f) == f.identity # <<>> /\ f.identity[1].name # ""
FacesNamed(n) == SelectSeq(AllFaces, LAMBDA f : HasName(f) /\ f.identity[1].name = n)
KeywordsOfClass(c) == SelectSeq(AllKeywords, LAMBDA k : k.class = c)
Names == {AllFaces[i].identity[1].name : i \in {j \in 1..Len(AllFaces) : HasName(AllFaces[j])}}
Classes == {AllKeywords[i].class : i \in 1..Len(AllKeywords)}

Answered == s_pc = "sent"
Succeeded == Answered /\ s_err = <<>>

NumberAtLeast(list, scoreOf(_), min) ==
    Cardinality({i \in 1..Len(list) : scoreOf(list[i]) >= min})

FaceScore(f) == f.identity[1].score
LabelScore(k) == k.score

SummaryNames ==
    {s_summary[1].face_detection[i].occurrences[1].identity[1].name :
        i \in 1..Len(s_summary[1].face_detection)}
SummaryClasses ==
    {s_summary[1].image_keywords[i].occurrences[1].class :
        i \in 1..Len(s_summary[1].image_keywords)}

FacesFilteredAsConfigured ==
    SummaryNames = {n \in Names : /\ Len(FacesNamed(n)) >= 3
                                  /\ NumberAtLeast(FacesNamed(n), FaceScore, 85) >= 2}

\* C8 as stated: faces are filtered with 3 / 0.85 / 2 and no cap, keywords
\* with 5 / 0.70 / 1 and a cap of 5, so that no class with fewer than 5
\* occurrences or with no occurrence scoring 0.70 or more is in image_keywords.
C8_KeywordsFiveSeventy ==
    Succeeded =>
        /\ FacesFilteredAsConfigured
        /\ Len(s_summary[1].image_keywords) <= 5
        /\ \A c \in SummaryClasses :
              /\ Len(KeywordsOfClass(c)) >= 5
              /\ NumberAtLeast(KeywordsOfClass(c), LabelScore, 70) >= 1

\* C8 amended: faces are filtered with 3 / 0.85 / 2 and no cap, keywords with
\* 1 / 0.60 / 1 and a cap of 5: a class is in image_keywords only if one of its
\* occurrences scores 0.60 or more, every such class is there when there are
\* at most 5 of them, and image_keywords has at most 5 entries.
C8_KeywordsOneSixty ==
    Succeeded =>
        LET qualifying == {c \in Classes :
                              NumberAtLeast(KeywordsOfClass(c), LabelScore, 60) >= 1}
        IN  /\ FacesFilteredAsConfigured
            /\ Len(s_summary[1].image_keywords) <= 5
            /\ Cardinality(SummaryClasses) = Len(s_summary[1].image_keywords)
            /\ SummaryClasses \subseteq qualifying
            /\ Cardinality(qualifying) <= 5 => SummaryClasses = qualifying
            /\ Cardinality(qualifying) > 5 => Cardinality(SummaryClasses) = 5

\* answered with a face, and with 5 keywords out of more that qualify, one of
\* them seen once only and scoring less than 0.70
C8_Witness ==
    /\ Succeeded
    /\ s_responses = <<[status |-> 200, body |-> s_summary[1]]>>
    /\ SummaryNames # {}
    /\ Cardinality({c \in Classes :
                       NumberAtLeast(KeywordsOfClass(c), LabelScore, 60) >= 1}) > 5
    /\ \E c \in SummaryClasses :
          /\ Len(KeywordsOfClass(c)) = 1
          /\ NumberAtLeast(KeywordsOfClass(c), LabelScore, 70) = 0

\* C9: a failed video lookup is followed by no frame lookup, a failed fetch by
\* no collection or filtering; the answer to a failed fetch is the
\* collaborator's error, unmodified, and no summary; a request is answered
\* once; a video without frames is answered with the video and two empty lists.
C9_FetchFailureShortCircuits ==
    /\ s_calls.get <= 1 /\ s_calls.videoImages <= 1 /\ s_calls.summarize <= 1
    /\ (s_calls.failed # <<>> /\ s_calls.videoImages = 0) =>
          (s_calls.get = 1 /\ s_calls.summarize = 0)
    /\ s_calls.failed # <<>> => (s_calls.summarize = 0 /\ s_summary = <<>>)
    /\ s_video = <<>> => s_calls.videoImages = 0
    /\ Len(s_responses) <= 1
    /\ Answered <=> Len(s_responses) = 1
    /\ (Answered /\ s_calls.failed # <<>>) =>
          s_responses = <<[status |-> 500, body |-> [error |-> s_calls.failed[1]]]>>
    /\ (Answered /\ s_calls.failed = <<>>) =>
          /\ s_responses[1].status = 200
          /\ s_responses[1].body.video = s_video[1]
          /\ s_images = <<>> =>
                s_responses[1].body = [video |-> s_video[1],
                                       face_detection |-> <<>>,
                                       image_keywords |-> <<>>]

\* the frame lookup failed after a successful video lookup, and was answered
C9_Witness ==
    /\ Answered
    /\ s_video # <<>>
    /\ s_calls.failed # <<>>
    /\ s_calls.videoImages = 1
    /\ s_responses[1].status = 500

----------------------------------------------------------------------------
(* uploadDocument *)

Uploads == 1..MaxUploads

\* the document store: a set of [id, attached]; the document an upload inserts
\* has the upload's number as its id
StoreInsert(store, id) == store \cup {[id |-> id, attached |-> FALSE]}
StoreAttach(store, id) ==
    (store \ {[id |-> id, attached |-> FALSE]}) \cup {[id |-> id, attached |-> TRUE]}
StoreDelete(store, id) == {d \in store : d.id # id}
StoreIds(store) == {d.id : d \in store}

InitUpload ==
    /\ u_pc = [u \in Uploads |-> "insert"]
    /\ u_store = {}
    /\ u_calls = [u \in Uploads |->
                     [insert |-> "none", attach |-> "none", delete |-> "none"]]
    /\ u_responses = [u \in Uploads |-> <<>>]
    /\ FilterIdle /\ SummaryIdle

Respond(u, response) ==
    u_responses' = [u_responses EXCEPT ![u] = Append(@, response)]

\* the callback of mediaStorage.insert(doc, ...)
U_InsertCallback(u) ==
    /\ u_pc[u] = "insert"
    /\ \/ \E statusCode \in {409, 500} :
             /\ u_calls' = [u_calls EXCEPT ![u].insert = "failed"]
             /\ Respond(u, [status |-> statusCode,
                            body |-> "Error persisting media document"])
             /\ u_pc' = [u_pc EXCEPT ![u] = "done"]
             /\ UNCHANGED u_store
       \/ /\ u_calls' = [u_calls EXCEPT ![u].insert = "ok"]
          /\ u_store' = StoreInsert(u_store, u)
          /\ u_pc' = [u_pc EXCEPT ![u] = "attach"]
          /\ UNCHANGED u_responses
    /\ UNCHANGED <<fvars, svars>>

OnAttachError_AnswersAtOnce(u) ==
    /\ Respond(u, [status |-> 500, body |-> "Error saving media attachment"])
    /\ u_pc' = [u_pc EXCEPT ![u] = "done"]

\* if (attachErr) mediaStorage.delete(doc, () => { ... }): nothing is sent yet
OnAttachError(u) ==
    /\ u_pc' = [u_pc EXCEPT ![u] = "delete"]
    /\ UNCHANGED u_responses

\* the callback of mediaStorage.attach(doc, attachmentName, mimetype, ...)
U_AttachCallback(u) ==
    /\ u_pc[u] = "attach"
    /\ \/ /\ u_calls' = [u_calls EXCEPT ![u].attach = "failed"]
          /\ OnAttachError(u)
          /\ UNCHANGED u_store
       \/ /\ u_calls' = [u_calls EXCEPT ![u].attach = "ok"]
          /\ u_store' = StoreAttach(u_store, u)
          /\ Respond(u, [status |-> 200, body |-> [id |-> u, attached |-> TRUE]])
          /\ u_pc' = [u_pc EXCEPT ![u] = "done"]
    /\ UNCHANGED <<fvars, svars>>

\* the callback of mediaStorage.delete(doc, () => res.status(500).send(...)):
\* it takes no argument, so the outcome of the delete is not looked at
U_DeleteCallback(u) ==
    /\ u_pc[u] = "delete"
    /\ \/ /\ u_calls' = [u_calls EXCEPT ![u].delete = "ok"]
          /\ u_store' = StoreDelete(u_store, u)
       \/ /\ u_calls' = [u_calls EXCEPT ![u].delete = "failed"]
          /\ UNCHANGED u_store
    /\ Respond(u, [status |-> 500, body |-> "Error saving media attachment"])
    /\ u_pc' = [u_pc EXCEPT ![u] = "done"]
    /\ UNCHANGED <<fvars, svars>>

NextUpload ==
    \E u \in Uploads : U_InsertCallback(u) \/ U_AttachCallback(u) \/ U_DeleteCallback(u)

SpecUpload == InitUpload /\ [][NextUpload]_vars

----------------------------------------------------------------------------
(* Properties of uploadDocument, under SpecUpload *)

AnsweredWithError(u) == u_responses[u] # <<>> /\ u_responses[u][1].status # 200

====
